---- MODULE Spec2Model ----
(***************************************************************************)
(* A model of src/todo_app.py: the record store (load_todos, save_todos),  *)
(* the record engine (next_id, find_by_id, parse_due_date, add_todo,       *)
(* update_todo_fields, set_complete, delete_todo, list_todos) and the two  *)
(* callers of the engine (main, the one-shot command path, and             *)
(* interactive_menu).                                                      *)
(*                                                                         *)
(* Python strings are sequences of one-character strings, so that strip()  *)
(* and strptime() are computed and not assumed.  A Python value is a record  *)
(* [t, v] of its type and value: None is distinct from the empty string.   *)
(***************************************************************************)
EXTENDS Integers, Sequences, FiniteSets, TLC

VARIABLES
    todos,   \* the in-memory list of the running process (List[Todo])
    file,    \* the backing file todos.json
    out,     \* what the last operation listed: a message or records (of
             \* parse_due_date alone: the value it returned)
    mode,    \* who is calling: "engine", "shell" (one-shot commands) or "menu"
    last,    \* what the last operation was and how it ended (observation only)
    deleted  \* the ids of the records deleted so far (observation only, kept
             \* by the specification SpecIds alone)

vars == <<todos, file, out, mode, last, deleted>>

----------------------------------------------------------------------------
(* Bounds of the model *)

\* the largest id create may assign in the model (ids are unbounded in the code)
MaxId == 3

\* the longest collection create extends in the model
MaxTodos == 2

\* the longest collection the commands and the menu extend in the model
MaxPathTodos == 1

\* the longest collection the list specification draws
MaxListLen == 3

\* the largest id, and the longest collection, of the stored collections the
\* identity specification starts from
MaxStoredId == 5

MaxStoredLen == 2

\* the longest collection the round-trip specification saves (its ids go one
\* further, to leave gaps)
MaxRoundTripLen == 2

\* the longest array of the stored documents the load specification draws
MaxDocLen == 2

----------------------------------------------------------------------------
(* Text *)

\* Python values: the type's name and the value
PyNone == [t |-> "NoneType", v |-> 0]

PyStr(s) == [t |-> "str", v |-> s]

PyInt(n) == [t |-> "int", v |-> n]

PyBool(b) == [t |-> "bool", v |-> b]

\* bool(x): None, "", 0 and False are false
truthy(x) ==
    CASE x.t = "NoneType" -> FALSE
      [] x.t = "str" -> x.v # <<>>
      [] x.t = "int" -> x.v # 0
      [] x.t = "bool" -> x.v
      [] OTHER -> TRUE

\* x == y of Python: values of one type compare by value, True == 1 and
\* False == 0, values of different types are unequal
PyEq(x, y) ==
    LET num(z) == IF z.t = "bool" THEN (IF z.v THEN 1 ELSE 0) ELSE z.v
    IN  IF x.t \in {"int", "bool"} /\ y.t \in {"int", "bool"} THEN num(x) = num(y)
        ELSE x.t = y.t /\ x.v = y.v

DigitChars == <<"0", "1", "2", "3", "4", "5", "6", "7", "8", "9">>

IsDigit(c) == \E i \in 1..10 : DigitChars[i] = c

DigitVal(c) == (CHOOSE i \in 1..10 : DigitChars[i] = c) - 1

IsSpace(c) == c \in {" ", "\t", "\n", "\r"}

RECURSIVE lstrip(_)
lstrip(s) == IF s # <<>> /\ IsSpace(Head(s)) THEN lstrip(Tail(s)) ELSE s

RECURSIVE rstrip(_)
rstrip(s) ==
    IF s # <<>> /\ IsSpace(s[Len(s)]) THEN rstrip(SubSeq(s, 1, Len(s) - 1)) ELSE s

\* str.strip()
strip(s) == rstrip(lstrip(s))

\* two decimal digits, zero padded (%m, %d, %H, %M of strftime)
Pad2(n) == <<DigitChars[(n \div 10) + 1], DigitChars[(n % 10) + 1]>>

\* four decimal digits, zero padded (%Y of strftime)
Pad4(n) == Pad2(n \div 100) \o Pad2(n % 100)

----------------------------------------------------------------------------
(* Calendar dates and datetime.strptime(s, "%Y-%m-%d") *)

DATE_FMT == <<"%Y", "-", "%m", "-", "%d">>

IsLeap(y) == y % 4 = 0 /\ (y % 100 # 0 \/ y % 400 = 0)

DaysInMonth(y, m) ==
    IF m = 2 THEN (IF IsLeap(y) THEN 29 ELSE 28)
    ELSE IF m \in {4, 6, 9, 11} THEN 30 ELSE 31

NoDate == [ok |-> FALSE, y |-> 0, m |-> 0, d |-> 0]

\* strptime: the format's regular expression is matched from the start of s
\* (%Y is \d\d\d\d, %m is 1[0-2]|0[1-9]|[1-9], %d is
\* 3[0-1]|[1-2]\d|0[1-9]|[1-9]| [1-9], alternatives tried in this order), the
\* match must consume all of s, and the fields must form a date of the calendar.
\* ok = FALSE stands for the ValueError.
strptime(s) ==
    LET n == Len(s)
        In19(c) == IsDigit(c) /\ c # "0"
        yOK == n >= 5 /\ (\A i \in 1..4 : IsDigit(s[i])) /\ s[5] = "-"
        m2 == n >= 7 /\ ( (s[6] = "1" /\ s[7] \in {"0", "1", "2"})
                          \/ (s[6] = "0" /\ In19(s[7])) )
        m1 == n >= 6 /\ In19(s[6])
        mlen == IF m2 /\ n >= 8 /\ s[8] = "-" THEN 2
                ELSE IF m1 /\ n >= 7 /\ s[7] = "-" THEN 1 ELSE 0
        p == 6 + mlen + 1
        d2 == n >= p + 1 /\ ( (s[p] = "3" /\ s[p + 1] \in {"0", "1"})
                              \/ (s[p] \in {"1", "2"} /\ IsDigit(s[p + 1]))
                              \/ (s[p] = "0" /\ In19(s[p + 1])) )
        d1 == n >= p /\ In19(s[p])
        ds == n >= p + 1 /\ s[p] = " " /\ In19(s[p + 1])
        dlen == IF d2 THEN 2 ELSE IF d1 THEN 1 ELSE IF ds THEN 2 ELSE 0
        matched == yOK /\ mlen > 0 /\ dlen > 0 /\ p + dlen - 1 = n
        y == 1000 * DigitVal(s[1]) + 100 * DigitVal(s[2])
             + 10 * DigitVal(s[3]) + DigitVal(s[4])
        m == IF mlen = 2 THEN 10 * DigitVal(s[6]) + DigitVal(s[7])
             ELSE DigitVal(s[6])
        d == IF d2 THEN 10 * DigitVal(s[p]) + DigitVal(s[p + 1])
             ELSE IF d1 THEN DigitVal(s[p]) ELSE DigitVal(s[p + 1])
    IN  IF matched /\ y >= 1 /\ d <= DaysInMonth(y, m)
        THEN [ok |-> TRUE, y |-> y, m |-> m, d |-> d]
        ELSE NoDate

\* Todo.due_as_date: None when due_date is None or empty or does not parse
due_as_date(t) ==
    IF ~truthy(t.due_date) THEN NoDate ELSE strptime(t.due_date.v)

\* date < date
DateLess(a, b) ==
    \/ a.y < b.y
    \/ a.y = b.y /\ a.m < b.m
    \/ a.y = b.y /\ a.m = b.m /\ a.d < b.d

\* datetime.now().strftime("%Y-%m-%d %H:%M")
now_str(now) ==
    Pad4(now.y) \o <<"-">> \o Pad2(now.mo) \o <<"-">> \o Pad2(now.d)
        \o <<" ">> \o Pad2(now.h) \o <<":">> \o Pad2(now.mi)

\* parse_due_date: None for None or blank text, the stripped text when it
\* parses, ValueError (raised = TRUE) otherwise
parse_due_date(s) ==
    IF s.t = "NoneType" THEN [raised |-> FALSE, val |-> PyNone]
    ELSE IF strip(s.v) = <<>> THEN [raised |-> FALSE, val |-> PyNone]
    ELSE IF strptime(strip(s.v)).ok THEN [raised |-> FALSE, val |-> PyStr(strip(s.v))]
    ELSE [raised |-> TRUE, val |-> PyNone]

----------------------------------------------------------------------------
(* Store: the backing file holds JSON; a JSON value is a record [j, jv] *)

DATA_FILE == "todos.json"

JNull == [j |-> "null", jv |-> 0]

JStr(s) == [j |-> "string", jv |-> s]

JNum(n) == [j |-> "number", jv |-> n]

JBool(b) == [j |-> "boolean", jv |-> b]

JArr(seq) == [j |-> "array", jv |-> seq]

JObj(f) == [j |-> "object", jv |-> f]

\* json.dump writing null for every value that is false
to_json_falsy_null(x) ==
    CASE x.t = "NoneType" -> JNull
      [] x.t = "str" -> IF x.v = <<>> THEN JNull ELSE JStr(x.v)
      [] x.t = "int" -> JNum(x.v)
      [] x.t = "bool" -> IF x.v THEN JBool(x.v) ELSE JNull

\* json.dump of one Python value
to_json(x) ==
    CASE x.t = "NoneType" -> JNull
      [] x.t = "str" -> JStr(x.v)
      [] x.t = "int" -> JNum(x.v)
      [] x.t = "bool" -> JBool(x.v)

\* json.load of one JSON value (a nested array or object becomes a list or dict)
from_json(x) ==
    CASE x.j = "null" -> PyNone
      [] x.j = "string" -> PyStr(x.jv)
      [] x.j = "number" -> PyInt(x.jv)
      [] x.j = "boolean" -> PyBool(x.jv)
      [] x.j = "array" -> [t |-> "list", v |-> x.jv]
      [] x.j = "object" -> [t |-> "dict", v |-> x.jv]

\* the fields of the dataclass Todo, and those without a default
TodoFields == {"id", "title", "description", "due_date", "completed", "created_at"}

TodoRequired == {"id", "title", "description"}

\* Todo(...): the dataclass constructor
Todo(id, title, description, due_date, completed, created_at) ==
    [id |-> id, title |-> title, description |-> description,
     due_date |-> due_date, completed |-> completed, created_at |-> created_at]

\* dataclasses.asdict(t), as the JSON object json.dump writes
asdict(t) ==
    JObj([k \in TodoFields |-> to_json(t[k])])

\* the file before the first save
NoFile == [exists |-> FALSE, syntax_ok |-> TRUE, doc |-> JNull]

\* save_todos: the whole file is rewritten from the list
save_todos(ts) ==
    [exists |-> TRUE, syntax_ok |-> TRUE,
     doc |-> JArr([i \in 1..Len(ts) |-> asdict(ts[i])])]

\* Todo(**item): TypeError unless item is a mapping whose keys are fields of
\* Todo and include the fields without a default; the values are taken as they
\* are, whatever their types
TodoAccepts(item) ==
    /\ item.j = "object"
    /\ DOMAIN item.jv \subseteq TodoFields
    /\ TodoRequired \subseteq DOMAIN item.jv

TodoFromItem(item) ==
    LET get(k, default) == IF k \in DOMAIN item.jv THEN from_json(item.jv[k]) ELSE default
    IN  Todo(get("id", PyNone), get("title", PyNone), get("description", PyNone),
             get("due_date", PyNone), get("completed", PyBool(FALSE)),
             get("created_at", PyStr(<<>>)))

\* what `for item in raw` iterates: the elements of an array, the keys of an
\* object, the characters of a string; ok = FALSE is the TypeError of a value
\* that cannot be iterated
RawItems(doc) ==
    CASE doc.j = "array" -> [ok |-> TRUE, items |-> doc.jv]
      [] doc.j = "object" ->
            [ok |-> DOMAIN doc.jv = {}, items |-> <<>>]
      [] doc.j = "string" ->
            [ok |-> doc.jv = <<>>, items |-> <<>>]
      [] OTHER -> [ok |-> FALSE, items |-> <<>>]

\* load_todos: [] for a missing file; [] and a warning for a file that is not
\* JSON or whose items Todo(**item) rejects; the records otherwise
load_todos(f) ==
    IF ~f.exists THEN [todos |-> <<>>, warned |-> FALSE]
    ELSE IF ~f.syntax_ok THEN [todos |-> <<>>, warned |-> TRUE]
    ELSE LET raw == RawItems(f.doc)
         IN  IF raw.ok /\ \A i \in 1..Len(raw.items) : TodoAccepts(raw.items[i])
             THEN [todos |-> [i \in 1..Len(raw.items) |-> TodoFromItem(raw.items[i])],
                   warned |-> FALSE]
             ELSE [todos |-> <<>>, warned |-> TRUE]

----------------------------------------------------------------------------
(* Record engine *)

\* max of a non-empty set of integers
SetMax(S) == CHOOSE m \in S : \A x \in S : x <= m

\* the ids of a list of records
Ids(ts) == {ts[i].id.v : i \in 1..Len(ts)}

\* next_id as the number of records plus one
next_id_count(ts) == Len(ts) + 1

\* next_id as the smallest id no record holds
next_id_first_free(ts) ==
    CHOOSE n \in 1..(Len(ts) + 1) :
        n \notin Ids(ts) /\ \A m \in 1..(n - 1) : m \in Ids(ts)

\* next_id as one more than the id of the last record of the list
next_id_last(ts) ==
    IF ts = <<>> THEN 1 ELSE ts[Len(ts)].id.v + 1

\* next_id: max((t.id for t in todos), default=0) + 1
next_id(ts) ==
    IF ts = <<>> THEN 0 + 1 ELSE SetMax(Ids(ts)) + 1

\* find_by_id: the position of the first record whose id equals todo_id,
\* 0 for None
find_by_id(ts, todo_id) ==
    IF \E i \in 1..Len(ts) : PyEq(ts[i].id, PyInt(todo_id))
    THEN CHOOSE i \in 1..Len(ts) :
            /\ PyEq(ts[i].id, PyInt(todo_id))
            /\ \A k \in 1..(i - 1) : ~PyEq(ts[k].id, PyInt(todo_id))
    ELSE 0

\* list.remove(x): the first element equal to x is removed
ListRemove(ts, x) ==
    LET i == CHOOSE k \in 1..Len(ts) : ts[k] = x /\ \A m \in 1..(k - 1) : ts[m] # x
    IN  SubSeq(ts, 1, i - 1) \o SubSeq(ts, i + 1, Len(ts))

\* what an engine operation leaves behind: the list, the file, the exception it
\* raised ("none" when it returned) and whether it called save_todos
Outcome(ts, f, exc, saved) ==
    [todos |-> ts, file |-> f, exc |-> exc, saved |-> saved]

\* add_todo appending to the list read from the file again
add_todo_reloading(ts, f, title, description, due, now) ==
    LET ts1 == load_todos(f).todos
        t == Todo(PyInt(next_id(ts1)), PyStr(strip(title)), PyStr(strip(description)),
                  due, PyBool(FALSE), PyStr(now_str(now)))
        ts2 == Append(ts1, t)
    IN  Outcome(ts2, save_todos(ts2), "none", TRUE)

\* add_todo(todos, title, description, due); now is datetime.now()
add_todo(ts, f, title, description, due, now) ==
    LET t == Todo(PyInt(next_id(ts)), PyStr(strip(title)), PyStr(strip(description)),
                  due, PyBool(FALSE), PyStr(now_str(now)))
        ts2 == Append(ts, t)
    IN  Outcome(ts2, save_todos(ts2), "none", TRUE)

\* update_todo_fields building the record anew and leaving created_at to its
\* default
update_todo_fields_rebuilt(ts, f, todo_id, title, desc, due, clear_due) ==
    LET i == find_by_id(ts, todo_id)
    IN  IF i = 0 THEN Outcome(ts, f, "ValueError: To-do not found.", FALSE)
        ELSE LET t == Todo(ts[i].id,
                           IF title.t # "NoneType" THEN PyStr(strip(title.v))
                           ELSE ts[i].title,
                           IF desc.t # "NoneType" THEN PyStr(strip(desc.v))
                           ELSE ts[i].description,
                           IF clear_due THEN PyNone
                           ELSE IF due.t # "NoneType" THEN due ELSE ts[i].due_date,
                           ts[i].completed, PyStr(<<>>))
                 ts2 == [ts EXCEPT ![i] = t]
             IN  Outcome(ts2, save_todos(ts2), "none", TRUE)

\* update_todo_fields assigning due_date without the test for None
update_todo_fields_due_always(ts, f, todo_id, title, desc, due, clear_due) ==
    LET i == find_by_id(ts, todo_id)
    IN  IF i = 0 THEN Outcome(ts, f, "ValueError: To-do not found.", FALSE)
        ELSE LET t1 == IF title.t # "NoneType"
                       THEN [ts[i] EXCEPT !.title = PyStr(strip(title.v))] ELSE ts[i]
                 t2 == IF desc.t # "NoneType"
                       THEN [t1 EXCEPT !.description = PyStr(strip(desc.v))] ELSE t1
                 t3 == IF clear_due THEN [t2 EXCEPT !.due_date = PyNone]
                       ELSE [t2 EXCEPT !.due_date = due]
                 ts2 == [ts EXCEPT ![i] = t3]
             IN  Outcome(ts2, save_todos(ts2), "none", TRUE)

\* update_todo_fields testing due before clear_due
update_todo_fields_due_first(ts, f, todo_id, title, desc, due, clear_due) ==
    LET i == find_by_id(ts, todo_id)
    IN  IF i = 0 THEN Outcome(ts, f, "ValueError: To-do not found.", FALSE)
        ELSE LET t1 == IF title.t # "NoneType"
                       THEN [ts[i] EXCEPT !.title = PyStr(strip(title.v))] ELSE ts[i]
                 t2 == IF desc.t # "NoneType"
                       THEN [t1 EXCEPT !.description = PyStr(strip(desc.v))] ELSE t1
                 t3 == IF due.t # "NoneType" THEN [t2 EXCEPT !.due_date = due]
                       ELSE IF clear_due THEN [t2 EXCEPT !.due_date = PyNone]
                       ELSE t2
                 ts2 == [ts EXCEPT ![i] = t3]
             IN  Outcome(ts2, save_todos(ts2), "none", TRUE)

\* update_todo_fields(todos, todo_id, title, desc, due, clear_due); title, desc
\* and due are None or a str
update_todo_fields(ts, f, todo_id, title, desc, due, clear_due) ==
    LET i == find_by_id(ts, todo_id)
    IN  IF i = 0 THEN Outcome(ts, f, "ValueError: To-do not found.", FALSE)
        ELSE LET t1 == IF title.t # "NoneType"
                       THEN [ts[i] EXCEPT !.title = PyStr(strip(title.v))] ELSE ts[i]
                 t2 == IF desc.t # "NoneType"
                       THEN [t1 EXCEPT !.description = PyStr(strip(desc.v))] ELSE t1
                 t3 == IF clear_due THEN [t2 EXCEPT !.due_date = PyNone]
                       ELSE IF due.t # "NoneType" THEN [t2 EXCEPT !.due_date = due]
                       ELSE t2
                 ts2 == [ts EXCEPT ![i] = t3]
             IN  Outcome(ts2, save_todos(ts2), "none", TRUE)

\* set_complete dropping the record from the list once it is completed
set_complete_archive(ts, f, todo_id, completed) ==
    LET i == find_by_id(ts, todo_id)
    IN  IF i = 0 THEN Outcome(ts, f, "ValueError: To-do not found.", FALSE)
        ELSE LET ts2 == IF completed THEN ListRemove(ts, ts[i])
                        ELSE [ts EXCEPT ![i].completed = PyBool(completed)]
             IN  Outcome(ts2, save_todos(ts2), "none", TRUE)

\* set_complete without the save
set_complete_unsaved(ts, f, todo_id, completed) ==
    LET i == find_by_id(ts, todo_id)
    IN  IF i = 0 THEN Outcome(ts, f, "ValueError: To-do not found.", FALSE)
        ELSE Outcome([ts EXCEPT ![i].completed = PyBool(completed)], f, "none", FALSE)

\* set_complete flipping the flag instead of setting it
set_complete_toggle(ts, f, todo_id, completed) ==
    LET i == find_by_id(ts, todo_id)
    IN  IF i = 0 THEN Outcome(ts, f, "ValueError: To-do not found.", FALSE)
        ELSE LET ts2 == [ts EXCEPT ![i].completed = PyBool(~truthy(ts[i].completed))]
             IN  Outcome(ts2, save_todos(ts2), "none", TRUE)

\* set_complete(todos, todo_id, completed)
set_complete(ts, f, todo_id, completed) ==
    LET i == find_by_id(ts, todo_id)
    IN  IF i = 0 THEN Outcome(ts, f, "ValueError: To-do not found.", FALSE)
        ELSE LET ts2 == [ts EXCEPT ![i].completed = PyBool(completed)]
             IN  Outcome(ts2, save_todos(ts2), "none", TRUE)

\* delete_todo cutting the list at the record
delete_todo_cut(ts, f, todo_id) ==
    LET i == find_by_id(ts, todo_id)
    IN  IF i = 0 THEN Outcome(ts, f, "ValueError: To-do not found.", FALSE)
        ELSE LET ts2 == SubSeq(ts, 1, i - 1)
             IN  Outcome(ts2, save_todos(ts2), "none", TRUE)

\* delete_todo that skips an absent id without raising, and saves
delete_todo_quiet(ts, f, todo_id) ==
    LET i == find_by_id(ts, todo_id)
        ts2 == IF i = 0 THEN ts ELSE ListRemove(ts, ts[i])
    IN  Outcome(ts2, save_todos(ts2), "none", TRUE)

\* delete_todo(todos, todo_id)
delete_todo(ts, f, todo_id) ==
    LET i == find_by_id(ts, todo_id)
    IN  IF i = 0 THEN Outcome(ts, f, "ValueError: To-do not found.", FALSE)
        ELSE LET ts2 == ListRemove(ts, ts[i])
             IN  Outcome(ts2, save_todos(ts2), "none", TRUE)

\* the sort key of list_todos: (0, d, t.id) if d else (1, date.max, t.id)
DateMax == [ok |-> TRUE, y |-> 9999, m |-> 12, d |-> 31]

\* the sort key without the id
due_key_no_id(t) ==
    LET d == due_as_date(t)
    IN  IF d.ok THEN <<0, d, 0>> ELSE <<1, DateMax, 0>>

due_key(t) ==
    LET d == due_as_date(t)
    IN  IF d.ok THEN <<0, d, t.id.v>> ELSE <<1, DateMax, t.id.v>>

\* a < b for two sort keys (tuples compare item by item)
KeyLess(a, b) ==
    \/ a[1] < b[1]
    \/ a[1] = b[1] /\ DateLess(a[2], b[2])
    \/ a[1] = b[1] /\ a[2] = b[2] /\ a[3] < b[3]

\* a sorts strictly before b under the key list_todos chose
SortsBefore(a, b, sort_by_due) ==
    IF sort_by_due THEN KeyLess(due_key(a), due_key(b)) ELSE a.id.v < b.id.v

\* list.sort(key=...): stable, so x goes in before the first element that
\* sorts strictly after it
SortInsert(sorted, x, sort_by_due) ==
    LET later == {k \in 1..Len(sorted) : SortsBefore(x, sorted[k], sort_by_due)}
        pos == IF later = {} THEN Len(sorted) + 1
               ELSE CHOOSE k \in later : \A m \in later : k <= m
    IN  SubSeq(sorted, 1, pos - 1) \o <<x>> \o SubSeq(sorted, pos, Len(sorted))

RECURSIVE list_sort(_, _)
list_sort(items, sort_by_due) ==
    IF items = <<>> THEN <<>>
    ELSE SortInsert(list_sort(SubSeq(items, 1, Len(items) - 1), sort_by_due),
                    items[Len(items)], sort_by_due)

\* the filter keeping the completed records
IsOpen_inverted(t) == truthy(t.completed)

IsOpen(t) == ~truthy(t.completed)

\* list_todos: what it prints, the message for an empty list or the records in
\* order
list_todos(ts, sort_by_due, open_only) ==
    IF ts = <<>> THEN [msg |-> "No to-dos yet.", items |-> <<>>]
    ELSE LET items == IF open_only THEN SelectSeq(ts, IsOpen) ELSE ts
         IN  [msg |-> "", items |-> list_sort(items, sort_by_due)]

\* list_todos sorting the list it was given, when no filter has made a new one
list_todos_in_place(ts, sort_by_due, open_only) ==
    IF ts = <<>> THEN ts
    ELSE LET h0 == [todos |-> ts]
             h1 == IF open_only THEN h0 ELSE [h0 EXCEPT !.todos = list_sort(ts, sort_by_due)]
         IN  h1.todos

\* list_todos: the list it was given, after the call.  items = todos[:] is a
\* second list object, the filter binds items to a third, and items.sort
\* sorts in place the object items is bound to
list_todos_leaves(ts, sort_by_due, open_only) ==
    IF ts = <<>> THEN ts
    ELSE LET h0 == [todos |-> ts, items |-> ts]
             h1 == IF open_only
                   THEN [h0 EXCEPT !.items = SelectSeq(h0.items, IsOpen)] ELSE h0
             h2 == [h1 EXCEPT !.items = list_sort(h1.items, sort_by_due)]
         IN  h2.todos

----------------------------------------------------------------------------
(* Inputs of the model *)

\* datetime.now() at the moments the model calls it
Now1 == [y |-> 2025, mo |-> 1, d |-> 5, h |-> 9, mi |-> 7]

Now2 == [y |-> 2025, mo |-> 11, d |-> 30, h |-> 23, mi |-> 59]

Clock == {Now1, Now2}

T_a == <<" ", "a", " ">>

T_b == <<"b">>

T_x == <<"x">>

T_y == <<"y", "\t">>

D_Mar == <<"2", "0", "2", "5", "-", "0", "3", "-", "0", "1">>

D_Jan == <<"2", "0", "2", "5", "-", "0", "1", "-", "0", "1">>

\* ids a caller asks for: a collection of the model never holds them all
AskedIds == 1..MaxId

\* what `last` records of an operation: which one, on which path, the id it was
\* given (the id it assigned, for add), the exception it raised ("none" when it
\* returned), whether it called save_todos, whether load_todos warned, and
\* whether the due text it was given was invalid, the value set_complete was
\* given, and of update_todo_fields the arguments that were not None (and
\* clear_due when it was set) and the due argument, and the two flags of
\* list_todos, and whether the menu's list differed from the file's when the
\* operation began
NoOp ==
    [op |-> "init", path |-> "engine", id |-> 0, exc |-> "none", saved |-> FALSE,
     warned |-> FALSE, bad_due |-> FALSE, completed |-> FALSE, given |-> {},
     due |-> PyNone, sort_by_due |-> FALSE, open_only |-> FALSE, stale |-> FALSE]

NotFound == "ValueError: To-do not found."

\* nothing printed yet
NoOutput == [msg |-> "", items |-> <<>>]

\* the optional arguments an update call supplies
Given(title, desc, due, clear_due) ==
    {k \in {"title", "desc", "due", "clear_due"} :
        \/ k = "title" /\ title # PyNone
        \/ k = "desc" /\ desc # PyNone
        \/ k = "due" /\ due # PyNone
        \/ k = "clear_due" /\ clear_due}

----------------------------------------------------------------------------
(* The engine called directly, in one process that starts with no file *)

Init ==
    /\ todos = <<>>
    /\ file = NoFile
    /\ out = NoOutput
    /\ mode = "engine"
    /\ last = NoOp
    /\ deleted = {}

AddTodo(title, description, due, now) ==
    LET r == add_todo(todos, file, title, description, due, now)
    IN  /\ next_id(todos) <= MaxId
        /\ Len(todos) < MaxTodos
        /\ todos' = r.todos
        /\ file' = r.file
        /\ last' = [NoOp EXCEPT !.op = "add", !.id = next_id(todos), !.exc = r.exc,
                                !.saved = r.saved]
        /\ out' = NoOutput
        /\ UNCHANGED mode

UpdateTodoFields(todo_id, title, desc, due, clear_due) ==
    LET r == update_todo_fields(todos, file, todo_id, title, desc, due, clear_due)
    IN  /\ todos' = r.todos
        /\ file' = r.file
        /\ last' = [NoOp EXCEPT !.op = "update", !.id = todo_id, !.exc = r.exc,
                                !.saved = r.saved, !.due = due,
                                !.given = Given(title, desc, due, clear_due)]
        /\ out' = NoOutput
        /\ UNCHANGED mode

SetComplete(todo_id, completed) ==
    LET r == set_complete(todos, file, todo_id, completed)
    IN  /\ todos' = r.todos
        /\ file' = r.file
        /\ last' = [NoOp EXCEPT !.op = "set_complete", !.id = todo_id, !.exc = r.exc,
                                !.saved = r.saved, !.completed = completed]
        /\ out' = NoOutput
        /\ UNCHANGED mode

DeleteTodo(todo_id) ==
    LET r == delete_todo(todos, file, todo_id)
    IN  /\ todos' = r.todos
        /\ file' = r.file
        /\ last' = [NoOp EXCEPT !.op = "delete", !.id = todo_id, !.exc = r.exc,
                                !.saved = r.saved]
        /\ out' = NoOutput
        /\ UNCHANGED mode

\* the arguments the engine specification draws
SpecTitles == {T_a, T_b}

SpecOptTitles == {PyNone, PyStr(T_b)}

Next ==
    \/ \E now \in Clock :
            AddTodo(T_a, T_x, PyStr(D_Mar), now) /\ UNCHANGED deleted
    \/ \E todo_id \in AskedIds, title \in SpecOptTitles :
            UpdateTodoFields(todo_id, title, PyNone, PyNone, FALSE) /\ UNCHANGED deleted
    \/ \E todo_id \in AskedIds, completed \in BOOLEAN :
            SetComplete(todo_id, completed) /\ UNCHANGED deleted
    \/ \E todo_id \in AskedIds : DeleteTodo(todo_id) /\ UNCHANGED deleted

Spec == Init /\ [][Next]_vars

----------------------------------------------------------------------------
(* Identity: create, complete and delete, with the deleted ids remembered *)

NextIds ==
    \/ \E title \in SpecTitles :
            AddTodo(title, T_x, PyNone, Now1) /\ UNCHANGED deleted
    \/ \E todo_id \in AskedIds, completed \in BOOLEAN :
            SetComplete(todo_id, completed) /\ UNCHANGED deleted
    \/ \E todo_id \in AskedIds :
            /\ DeleteTodo(todo_id)
            /\ deleted' = IF find_by_id(todos, todo_id) # 0
                          THEN deleted \cup {todo_id} ELSE deleted

SpecIds == Init /\ [][NextIds]_vars

----------------------------------------------------------------------------
(* Identity on stored collections: a process that has loaded a collection whose
   ids have gaps and are in any order, and creates and deletes *)

StoredIdRecord(id) ==
    Todo(PyInt(id), PyStr(<<"a">>), PyStr(<<"x">>), PyNone, PyBool(FALSE),
         PyStr(now_str(Now1)))

\* the lists of at most MaxStoredLen records with different ids up to
\* MaxStoredId, in any order
IdCollections ==
    UNION { { c \in [1..n -> {StoredIdRecord(i) : i \in 1..MaxStoredId}] :
                \A i, k \in 1..n : i # k => c[i].id # c[k].id } : n \in 0..MaxStoredLen }

InitNextId ==
    \E c \in IdCollections :
        /\ file = save_todos(c)
        /\ todos = load_todos(file).todos
        /\ out = NoOutput
        /\ mode = "engine"
        /\ last = [NoOp EXCEPT !.op = "load"]
        /\ deleted = {}

\* add_todo on a stored collection: ids are assigned up to MaxStoredId + 1
AddTodoStored(title, description, due, now) ==
    LET r == add_todo(todos, file, title, description, due, now)
    IN  /\ next_id(todos) <= MaxStoredId + 1
        /\ todos' = r.todos
        /\ file' = r.file
        /\ last' = [NoOp EXCEPT !.op = "add", !.id = next_id(todos), !.exc = r.exc,
                                !.saved = r.saved]
        /\ out' = NoOutput
        /\ UNCHANGED mode

NextNextId ==
    \/ AddTodoStored(T_a, T_x, PyNone, Now1) /\ UNCHANGED deleted
    \/ \E todo_id \in 1..(MaxStoredId + 1) : DeleteTodo(todo_id) /\ UNCHANGED deleted

SpecNextId == InitNextId /\ [][NextNextId]_vars

----------------------------------------------------------------------------
(* The store alone: save_todos and load_todos applied to collections *)

\* records with an empty title, with no due date, with an empty and with a real
\* one, open and completed
RoundTripRecords ==
    { Todo(PyInt(id), PyStr(title), PyStr(<<"x">>), due, PyBool(c),
           PyStr(now_str(Now1))) :
        id \in 1..(MaxRoundTripLen + 1), title \in {<<>>, <<"a">>},
        due \in {PyNone, PyStr(<<>>), PyStr(D_Mar)}, c \in BOOLEAN }

RoundTripCollections ==
    UNION { { c \in [1..n -> RoundTripRecords] :
                \A i, k \in 1..n : i # k => c[i].id # c[k].id } : n \in 0..MaxRoundTripLen }

InitRoundTrip ==
    \E c \in RoundTripCollections :
        /\ todos = c
        /\ file = NoFile
        /\ out = NoOutput
        /\ mode = "engine"
        /\ last = NoOp
        /\ deleted = {}

\* save_todos(todos)
SaveTodos ==
    /\ file' = save_todos(todos)
    /\ last' = [NoOp EXCEPT !.op = "save", !.saved = TRUE]
    /\ out' = NoOutput
    /\ UNCHANGED <<todos, mode, deleted>>

\* todos = load_todos(): the file is opened for reading only
LoadTodos ==
    /\ todos' = load_todos(file).todos
    /\ last' = [NoOp EXCEPT !.op = "load", !.warned = load_todos(file).warned]
    /\ out' = NoOutput
    /\ UNCHANGED <<file, mode, deleted>>

NextRoundTrip ==
    \/ SaveTodos
    \/ LoadTodos

SpecRoundTrip == InitRoundTrip /\ [][NextRoundTrip]_vars

----------------------------------------------------------------------------
(* Loading: a process that finds a file it did not write *)

I_ok ==
    JObj([k \in TodoFields |->
            CASE k = "id" -> JNum(1)
              [] k = "title" -> JStr(<<"a">>)
              [] k = "description" -> JStr(<<"x">>)
              [] k = "due_date" -> JNull
              [] k = "completed" -> JBool(TRUE)
              [] k = "created_at" -> JStr(now_str(Now1))])

\* only the fields without a default
I_min ==
    JObj([k \in TodoRequired |->
            CASE k = "id" -> JNum(2)
              [] k = "title" -> JStr(<<"b">>)
              [] k = "description" -> JStr(<<>>)])

\* no title
I_no_title == JObj([k \in TodoFields \ {"title"} |-> I_ok.jv[k]])

\* a key that is no field of Todo
I_extra ==
    JObj([k \in TodoFields \cup {"priority"} |->
            IF k = "priority" THEN JNum(1) ELSE I_ok.jv[k]])

\* the id is a text
I_id_text == JObj([I_ok.jv EXCEPT !["id"] = JStr(<<"x">>)])

\* completed is a text, the title is null
I_flag_text ==
    JObj([I_ok.jv EXCEPT !["completed"] = JStr(<<"n", "o">>), !["title"] = JNull])

\* the due date is a number
I_due_number == JObj([I_ok.jv EXCEPT !["due_date"] = JNum(5)])

\* not an object
I_number == JNum(5)

StoredItems ==
    {I_ok, I_min, I_no_title, I_extra, I_id_text, I_flag_text, I_due_number, I_number}

\* what the file may hold: arrays of items, and values that are no array
StoredDocs ==
    UNION { { JArr(a) : a \in [1..n -> StoredItems] } : n \in 0..MaxDocLen }
        \cup { JNull, JNum(7), JBool(TRUE), JStr(<<>>), JStr(<<"a", "b">>),
               JObj(<<>>), JObj([k \in {"a"} |-> JNum(1)]) }

\* no file, a file that is not JSON, and the files holding the documents
StoredFiles ==
    {NoFile, [exists |-> TRUE, syntax_ok |-> FALSE, doc |-> JNull]}
        \cup { [exists |-> TRUE, syntax_ok |-> TRUE, doc |-> d] : d \in StoredDocs }

InitLoad ==
    \E f \in StoredFiles :
        /\ todos = <<>>
        /\ file = f
        /\ out = NoOutput
        /\ mode = "engine"
        /\ last = NoOp
        /\ deleted = {}

NextLoad == LoadTodos

SpecLoad == InitLoad /\ [][NextLoad]_vars

----------------------------------------------------------------------------
(* Update: a process that has loaded a stored collection and updates it *)

R_open ==
    Todo(PyInt(1), PyStr(<<"a">>), PyStr(<<"x">>), PyNone, PyBool(FALSE),
         PyStr(now_str(Now1)))

R_done ==
    Todo(PyInt(2), PyStr(<<"b">>), PyStr(<<"x">>), PyStr(D_Mar), PyBool(TRUE),
         PyStr(now_str(Now2)))

StoredCollections == { <<R_open, R_done>>, <<R_done, R_open>>, <<R_done>> }

UpdateTitles == {PyNone, PyStr(T_b)}

UpdateDescriptions == {PyNone, PyStr(T_y)}

UpdateDues == {PyNone, PyStr(<<>>), PyStr(D_Jan)}

UpdateIds == Ids(<<R_open, R_done>>) \cup {MaxId + 1}

InitUpdate ==
    \E c \in StoredCollections :
        /\ file = save_todos(c)
        /\ todos = load_todos(file).todos
        /\ out = NoOutput
        /\ mode = "engine"
        /\ last = [NoOp EXCEPT !.op = "load"]
        /\ deleted = {}

NextUpdate ==
    \E todo_id \in UpdateIds, title \in UpdateTitles, desc \in UpdateDescriptions,
       due \in UpdateDues, clear_due \in BOOLEAN :
        UpdateTodoFields(todo_id, title, desc, due, clear_due) /\ UNCHANGED deleted

SpecUpdate == InitUpdate /\ [][NextUpdate]_vars

----------------------------------------------------------------------------
(* The engine on a stored collection of three records, or on none *)

R_late ==
    Todo(PyInt(3), PyStr(<<"c">>), PyStr(<<"x">>), PyNone, PyBool(FALSE),
         PyStr(now_str(Now2)))

\* the ids are not in order in the file
FrameStored == <<R_late, R_open, R_done>>

\* the title and the due date an update is given: neither, or both
FrameUpdates == {<<PyNone, PyNone>>, <<PyStr(T_b), PyStr(D_Jan)>>}

InitFrame ==
    \E c \in {<<>>, FrameStored} :
        /\ file = IF c = <<>> THEN NoFile ELSE save_todos(c)
        /\ todos = load_todos(file).todos
        /\ out = NoOutput
        /\ mode = "engine"
        /\ last = [NoOp EXCEPT !.op = "load"]
        /\ deleted = {}

NextFrame ==
    \/ \E now \in Clock :
            AddTodo(T_a, T_x, PyNone, now) /\ UNCHANGED deleted
    \/ \E todo_id \in AskedIds, u \in FrameUpdates :
            UpdateTodoFields(todo_id, u[1], PyNone, u[2], FALSE) /\ UNCHANGED deleted
    \/ \E todo_id \in AskedIds, completed \in BOOLEAN :
            SetComplete(todo_id, completed) /\ UNCHANGED deleted
    \/ \E todo_id \in AskedIds : DeleteTodo(todo_id) /\ UNCHANGED deleted

SpecFrame == InitFrame /\ [][NextFrame]_vars

----------------------------------------------------------------------------
(* Listing: a process that has loaded a stored collection and lists it *)

D_Bad == <<"2", "0", "2", "5", "-", "1", "3", "-", "4", "0">>

D_Jan5 == <<"2", "0", "2", "5", "-", "1", "-", "5">>

\* the id and the stored due date of the records a stored collection is drawn
\* from: two dates out of id order, a date held twice, a date without leading
\* zeros, and no date, an empty text and a text that is no date
ListDues ==
    { <<1, PyStr(D_Mar)>>, <<2, PyNone>>, <<3, PyStr(D_Jan)>>, <<4, PyStr(D_Bad)>>,
      <<5, PyStr(D_Mar)>>, <<6, PyStr(D_Jan5)>>, <<7, PyStr(<<>>)>> }

ListRecords ==
    { Todo(PyInt(x[1]), PyStr(<<"a">>), PyStr(<<"x">>), x[2], PyBool(c),
           PyStr(now_str(Now1))) : x \in ListDues, c \in BOOLEAN }

\* the lists of at most MaxListLen records with different ids, in any order
ListCollections ==
    UNION { { c \in [1..n -> ListRecords] :
                \A i, k \in 1..n : i # k => c[i].id # c[k].id } : n \in 0..MaxListLen }

InitList ==
    \E c \in ListCollections :
        /\ file = save_todos(c)
        /\ todos = load_todos(file).todos
        /\ out = NoOutput
        /\ mode = "engine"
        /\ last = [NoOp EXCEPT !.op = "load"]
        /\ deleted = {}

ListTodos(sort_by_due, open_only) ==
    /\ out' = list_todos(todos, sort_by_due, open_only)
    /\ todos' = list_todos_leaves(todos, sort_by_due, open_only)
    /\ last' = [NoOp EXCEPT !.op = "list", !.sort_by_due = sort_by_due,
                            !.open_only = open_only]
    /\ UNCHANGED <<file, mode>>

NextList ==
    \E sort_by_due \in BOOLEAN, open_only \in BOOLEAN :
        ListTodos(sort_by_due, open_only) /\ UNCHANGED deleted

SpecList == InitList /\ [][NextList]_vars

----------------------------------------------------------------------------
(* The callers: main (one-shot commands) and interactive_menu *)

InvalidDate == "ValueError: time data does not match format"

\* what a command leaves behind: the Outcome of the engine call, whether the
\* due text was invalid and whether load_todos warned
Report(r, bad_due, warned) ==
    [todos |-> r.todos, file |-> r.file, exc |-> r.exc, saved |-> r.saved,
     bad_due |-> bad_due, warned |-> warned]

\* main adding the record before it parses --due
main_add_late_check(f, title, description, due_arg, now) ==
    LET ld == load_todos(f)
        p == parse_due_date(due_arg)
        r == add_todo(ld.todos, f, title, description, p.val, now)
    IN  IF due_arg # PyNone /\ p.raised
        THEN Report(Outcome(r.todos, r.file, InvalidDate, TRUE), TRUE, ld.warned)
        ELSE Report(r, FALSE, ld.warned)

\* main, cmd == "add": the file is loaded, --due is parsed when given, and the
\* ValueError of parse_due_date ends the command before add_todo
main_add(f, title, description, due_arg, now) ==
    LET ld == load_todos(f)
        p == parse_due_date(due_arg)
    IN  IF due_arg # PyNone /\ p.raised
        THEN Report(Outcome(ld.todos, f, InvalidDate, FALSE), TRUE, ld.warned)
        ELSE Report(add_todo(ld.todos, f, title, description,
                             IF due_arg # PyNone THEN p.val ELSE PyNone, now),
                    FALSE, ld.warned)

\* main, cmd == "update"
main_update(f, todo_id, title, desc, due_arg, clear_due) ==
    LET ld == load_todos(f)
        p == parse_due_date(due_arg)
    IN  IF due_arg # PyNone /\ p.raised
        THEN Report(Outcome(ld.todos, f, InvalidDate, FALSE), TRUE, ld.warned)
        ELSE Report(update_todo_fields(ld.todos, f, todo_id, title, desc,
                                       IF due_arg # PyNone THEN p.val ELSE PyNone,
                                       clear_due),
                    FALSE, ld.warned)

\* main, cmd == "done" and "reopen"
main_set_complete(f, todo_id, completed) ==
    LET ld == load_todos(f)
    IN  Report(set_complete(ld.todos, f, todo_id, completed), FALSE, ld.warned)

\* main, cmd == "delete"
main_delete(f, todo_id) ==
    LET ld == load_todos(f)
    IN  Report(delete_todo(ld.todos, f, todo_id), FALSE, ld.warned)

\* prompt_non_empty: the first line typed whose stripped text is not empty
RECURSIVE prompt_non_empty(_)
prompt_non_empty(lines) ==
    IF strip(Head(lines)) # <<>> THEN strip(Head(lines))
    ELSE prompt_non_empty(Tail(lines))

\* interactive_menu: after a choice that raised nothing the list is loaded
\* again; after a ValueError it is kept
menu_reload(r, bad_due) ==
    IF r.exc = "none"
    THEN LET ld == load_todos(r.file)
         IN  Report(Outcome(ld.todos, r.file, r.exc, r.saved), bad_due, ld.warned)
    ELSE Report(r, bad_due, FALSE)

\* interactive_menu, choice 1: an invalid due date is reported and skipped
menu_add(ts, f, title_lines, desc_lines, due_line, now) ==
    LET title == prompt_non_empty(title_lines)
        desc == prompt_non_empty(desc_lines)
        due_input == strip(due_line)
        p == parse_due_date(PyStr(due_input))
        bad == due_input # <<>> /\ p.raised
        due == IF due_input # <<>> /\ ~p.raised THEN p.val ELSE PyNone
    IN  menu_reload(add_todo(ts, f, title, desc, due, now), bad)

\* interactive_menu, choice 5: "Not found." for an absent id (the loop goes on
\* without loading); blank lines keep a field, "-" clears the due date, an
\* invalid due date is reported and not changed
menu_update(ts, f, todo_id, title_line, desc_line, due_line) ==
    IF find_by_id(ts, todo_id) = 0
    THEN Report(Outcome(ts, f, "Not found.", FALSE), FALSE, FALSE)
    ELSE LET new_title == strip(title_line)
             new_desc == strip(desc_line)
             new_due == strip(due_line)
             clear_due == new_due = <<"-">>
             p == parse_due_date(PyStr(new_due))
             bad == new_due # <<>> /\ ~clear_due /\ p.raised
             due_val == IF new_due # <<>> /\ ~clear_due /\ ~p.raised
                        THEN p.val ELSE PyNone
         IN  menu_reload(
                 update_todo_fields(ts, f, todo_id,
                     IF new_title # <<>> THEN PyStr(new_title) ELSE PyNone,
                     IF new_desc # <<>> THEN PyStr(new_desc) ELSE PyNone,
                     due_val, clear_due),
                 bad)

\* what the model types and passes on the two paths
PathDues == {PyNone, PyStr(D_Mar), PyStr(D_Bad)}

PathDueLines == {<<>>, D_Mar \o <<" ">>, D_Bad}

PathUpdateDueLines == PathDueLines \cup {<<"-">>}

PathTitleLines == { <<T_b>>, << <<" ">>, T_a >> }

PathUpdateTitleLines == {<<>>, T_b}

\* `last` after a command
Did(op, path, todo_id, r) ==
    [NoOp EXCEPT !.op = op, !.path = path, !.id = todo_id, !.exc = r.exc,
                 !.saved = r.saved, !.bad_due = r.bad_due, !.warned = r.warned,
                 !.stale = (path = "menu" /\ load_todos(file).todos # todos)]

InitPaths ==
    /\ todos = <<>>
    /\ file = NoFile
    /\ out = NoOutput
    /\ mode = "shell"
    /\ last = NoOp
    /\ deleted = {}

MainAdd(title, description, due_arg, now) ==
    LET r == main_add(file, title, description, due_arg, now)
    IN  /\ mode = "shell"
        /\ next_id(load_todos(file).todos) <= MaxId
        /\ Len(load_todos(file).todos) < MaxPathTodos
        /\ todos' = r.todos
        /\ file' = r.file
        /\ last' = Did("add", "main", next_id(load_todos(file).todos), r)
        /\ out' = NoOutput
        /\ UNCHANGED <<mode, deleted>>

MainList(sort_by_due, open_only) ==
    /\ mode = "shell"
    /\ todos' = list_todos_leaves(load_todos(file).todos, sort_by_due, open_only)
    /\ out' = list_todos(load_todos(file).todos, sort_by_due, open_only)
    /\ last' = [NoOp EXCEPT !.op = "list", !.path = "main",
                            !.warned = load_todos(file).warned,
                            !.sort_by_due = sort_by_due, !.open_only = open_only]
    /\ UNCHANGED <<file, mode, deleted>>

MainDone(todo_id) ==
    LET r == main_set_complete(file, todo_id, TRUE)
    IN  /\ mode = "shell"
        /\ todos' = r.todos
        /\ file' = r.file
        /\ last' = [Did("set_complete", "main", todo_id, r) EXCEPT !.completed = TRUE]
        /\ out' = NoOutput
        /\ UNCHANGED <<mode, deleted>>

MainReopen(todo_id) ==
    LET r == main_set_complete(file, todo_id, FALSE)
    IN  /\ mode = "shell"
        /\ todos' = r.todos
        /\ file' = r.file
        /\ last' = Did("set_complete", "main", todo_id, r)
        /\ out' = NoOutput
        /\ UNCHANGED <<mode, deleted>>

MainUpdate(todo_id, title, desc, due_arg, clear_due) ==
    LET r == main_update(file, todo_id, title, desc, due_arg, clear_due)
    IN  /\ mode = "shell"
        /\ todos' = r.todos
        /\ file' = r.file
        /\ last' = [Did("update", "main", todo_id, r) EXCEPT
                        !.given = Given(title, desc, due_arg, clear_due)]
        /\ out' = NoOutput
        /\ UNCHANGED <<mode, deleted>>

MainDelete(todo_id) ==
    LET r == main_delete(file, todo_id)
    IN  /\ mode = "shell"
        /\ todos' = r.todos
        /\ file' = r.file
        /\ last' = Did("delete", "main", todo_id, r)
        /\ out' = NoOutput
        /\ UNCHANGED <<mode, deleted>>

\* main with no command: interactive_menu starts by loading the file
StartMenu ==
    /\ mode = "shell"
    /\ mode' = "menu"
    /\ todos' = load_todos(file).todos
    /\ last' = [NoOp EXCEPT !.op = "start", !.path = "menu",
                            !.warned = load_todos(file).warned]
    /\ out' = NoOutput
    /\ UNCHANGED <<file, deleted>>

Menu1(title_lines, desc_lines, due_line, now) ==
    LET r == menu_add(todos, file, title_lines, desc_lines, due_line, now)
    IN  /\ mode = "menu"
        /\ next_id(todos) <= MaxId
        /\ Len(todos) < MaxPathTodos
        /\ todos' = r.todos
        /\ file' = r.file
        /\ last' = Did("add", "menu", next_id(todos), r)
        /\ out' = NoOutput
        /\ UNCHANGED <<mode, deleted>>

\* choices 2, 3 and 4
MenuList(sort_by_due, open_only) ==
    /\ mode = "menu"
    /\ sort_by_due \/ ~open_only
    /\ out' = list_todos(todos, sort_by_due, open_only)
    /\ todos' = load_todos(file).todos
    /\ last' = [NoOp EXCEPT !.op = "list", !.path = "menu",
                            !.warned = load_todos(file).warned,
                            !.sort_by_due = sort_by_due, !.open_only = open_only]
    /\ UNCHANGED <<file, mode, deleted>>

Menu5(todo_id, title_line, desc_line, due_line) ==
    LET r == menu_update(todos, file, todo_id, title_line, desc_line, due_line)
    IN  /\ mode = "menu"
        /\ todos' = r.todos
        /\ file' = r.file
        /\ last' = [Did("update", "menu", todo_id, r) EXCEPT
                        !.given = {k \in {"title", "desc"} :
                                      \/ k = "title" /\ strip(title_line) # <<>>
                                      \/ k = "desc" /\ strip(desc_line) # <<>>}]
        /\ out' = NoOutput
        /\ UNCHANGED <<mode, deleted>>

\* choices 6 and 7
MenuSetComplete(todo_id, completed) ==
    LET r == menu_reload(set_complete(todos, file, todo_id, completed), FALSE)
    IN  /\ mode = "menu"
        /\ todos' = r.todos
        /\ file' = r.file
        /\ last' = [Did("set_complete", "menu", todo_id, r) EXCEPT
                        !.completed = completed]
        /\ out' = NoOutput
        /\ UNCHANGED <<mode, deleted>>

Menu8(todo_id) ==
    LET r == menu_reload(delete_todo(todos, file, todo_id), FALSE)
    IN  /\ mode = "menu"
        /\ todos' = r.todos
        /\ file' = r.file
        /\ last' = Did("delete", "menu", todo_id, r)
        /\ out' = NoOutput
        /\ UNCHANGED <<mode, deleted>>

Menu9 ==
    /\ mode = "menu"
    /\ mode' = "shell"
    /\ last' = [NoOp EXCEPT !.op = "exit", !.path = "menu"]
    /\ out' = NoOutput
    /\ UNCHANGED <<todos, file, deleted>>

\* any other choice: "Invalid choice." and the list is loaded again
MenuInvalid ==
    /\ mode = "menu"
    /\ todos' = load_todos(file).todos
    /\ last' = [NoOp EXCEPT !.op = "invalid choice", !.path = "menu",
                            !.warned = load_todos(file).warned]
    /\ out' = NoOutput
    /\ UNCHANGED <<file, mode, deleted>>

NextPaths ==
    \/ \E due_arg \in PathDues : MainAdd(T_a, T_x, due_arg, Now1)
    \/ \E sort_by_due \in BOOLEAN, open_only \in BOOLEAN : MainList(sort_by_due, open_only)
    \/ \E todo_id \in AskedIds : MainDone(todo_id)
    \/ \E todo_id \in AskedIds : MainReopen(todo_id)
    \/ \E todo_id \in AskedIds, title \in UpdateTitles, due_arg \in PathDues,
          clear_due \in BOOLEAN : MainUpdate(todo_id, title, PyNone, due_arg, clear_due)
    \/ \E todo_id \in AskedIds : MainDelete(todo_id)
    \/ StartMenu
    \/ \E title_lines \in PathTitleLines, due_line \in PathDueLines :
            Menu1(title_lines, <<T_x>>, due_line, Now1)
    \/ \E sort_by_due \in BOOLEAN, open_only \in BOOLEAN : MenuList(sort_by_due, open_only)
    \/ \E todo_id \in AskedIds, title_line \in PathUpdateTitleLines,
          due_line \in PathUpdateDueLines : Menu5(todo_id, title_line, <<>>, due_line)
    \/ \E todo_id \in AskedIds, completed \in BOOLEAN : MenuSetComplete(todo_id, completed)
    \/ \E todo_id \in AskedIds : Menu8(todo_id)
    \/ Menu9
    \/ MenuInvalid

SpecPaths == InitPaths /\ [][NextPaths]_vars

----------------------------------------------------------------------------
(* Due dates through the callers: create and update requests on both paths,
   with due texts that have and lack the leading zeros *)

DueArgs == {PyNone, PyStr(<<>>), PyStr(D_Mar), PyStr(D_Jan5), PyStr(D_Bad)}

DueLines == {<<>>, D_Mar \o <<" ">>, D_Jan5, D_Bad}

NextDue ==
    \/ \E due_arg \in DueArgs : MainAdd(T_a, T_x, due_arg, Now1)
    \/ \E todo_id \in AskedIds, due_arg \in DueArgs, clear_due \in BOOLEAN :
            MainUpdate(todo_id, PyNone, PyNone, due_arg, clear_due)
    \/ StartMenu
    \/ \E due_line \in DueLines : Menu1(<<T_b>>, <<T_x>>, due_line, Now1)
    \/ \E todo_id \in AskedIds, due_line \in DueLines \cup {<<"-">>} :
            Menu5(todo_id, <<>>, <<>>, due_line)
    \/ Menu9

SpecDue == InitPaths /\ [][NextDue]_vars

----------------------------------------------------------------------------
(* Two writers: while this process is in its menu, holding the list it loaded,
   another process runs one-shot commands on the same file *)

T_e == <<"e">>

\* `todo add` run by the other process
OtherAdd(title, now) ==
    LET r == main_add(file, title, T_x, PyNone, now)
    IN  /\ mode = "menu"
        /\ next_id(load_todos(file).todos) <= MaxId
        /\ Len(load_todos(file).todos) < MaxPathTodos
        /\ file' = r.file
        /\ last' = Did("add", "other", next_id(load_todos(file).todos), r)
        /\ out' = NoOutput
        /\ UNCHANGED <<todos, mode, deleted>>

\* `todo done` and `todo reopen` run by the other process
OtherSetComplete(todo_id, completed) ==
    LET r == main_set_complete(file, todo_id, completed)
    IN  /\ mode = "menu"
        /\ file' = r.file
        /\ last' = [Did("set_complete", "other", todo_id, r) EXCEPT
                        !.completed = completed]
        /\ out' = NoOutput
        /\ UNCHANGED <<todos, mode, deleted>>

\* `todo delete` run by the other process
OtherDelete(todo_id) ==
    LET r == main_delete(file, todo_id)
    IN  /\ mode = "menu"
        /\ file' = r.file
        /\ last' = Did("delete", "other", todo_id, r)
        /\ out' = NoOutput
        /\ UNCHANGED <<todos, mode, deleted>>

NextLost ==
    \/ StartMenu
    \/ Menu1(<< <<" ">>, T_a >>, <<T_x>>, <<>>, Now1)
    \/ \E todo_id \in AskedIds : Menu5(todo_id, <<>>, <<>>, <<>>)
    \/ \E todo_id \in AskedIds, completed \in BOOLEAN : MenuSetComplete(todo_id, completed)
    \/ \E todo_id \in AskedIds : Menu8(todo_id)
    \/ Menu9
    \/ MenuInvalid
    \/ OtherAdd(T_e, Now2)
    \/ \E todo_id \in AskedIds : OtherSetComplete(todo_id, TRUE)
    \/ \E todo_id \in AskedIds : OtherDelete(todo_id)

SpecLost == InitPaths /\ [][NextLost]_vars

----------------------------------------------------------------------------
(* parse_due_date alone, applied to texts *)

DueYears == {<<"2", "0", "2", "5">>, <<"2", "0", "2", "4">>}

\* months with and without the leading zero, and months there are not
DueMonths == {<<"0", "1">>, <<"1">>, <<"1", "3">>, <<"0", "0">>, <<"1", "2">>, <<"0", "2">>}

\* days with and without the leading zero, with a leading space, and days
\* there are not in every month
DueDays == {<<"0", "1">>, <<"5">>, <<" ", "5">>, <<"4", "0">>, <<"2", "9">>, <<"3", "0">>, <<"3", "1">>, <<"0", "0">>}

\* None, blank texts, texts of the shape year-month-day, and texts with
\* something around or instead of the hyphens
DueTexts ==
    { PyStr(y \o <<"-">> \o m \o <<"-">> \o d) : y \in DueYears, m \in DueMonths, d \in DueDays }
        \cup { PyNone, PyStr(<<>>), PyStr(<<" ">>), PyStr(<<" ">> \o D_Mar \o <<" ">>),
               PyStr(D_Mar \o <<"x">>), PyStr(<<"2", "0", "2", "5", "/", "0", "3", "/", "0", "1">>),
               PyStr(<<"2", "0", "2", "5", "0", "3", "0", "1">>), PyStr(<<"2", "5", "-", "0", "3", "-", "0", "1">>) }

InitDueText ==
    \E s \in DueTexts :
        /\ todos = <<>>
        /\ file = NoFile
        /\ out = NoOutput
        /\ mode = "engine"
        /\ last = [NoOp EXCEPT !.op = "input", !.due = s]
        /\ deleted = {}

\* parse_due_date(s) for the text at hand
ParseDueDate ==
    LET p == parse_due_date(last.due)
    IN  /\ last' = [last EXCEPT !.op = "parse_due_date", !.bad_due = p.raised,
                                !.exc = IF p.raised THEN InvalidDate ELSE "none"]
        /\ out' = [msg |-> "", items |-> IF p.raised THEN <<>> ELSE <<p.val>>]
        /\ UNCHANGED <<todos, file, mode, deleted>>

NextDueText == ParseDueDate

SpecDueText == InitDueText /\ [][NextDueText]_vars

----------------------------------------------------------------------------
(* Claims about the engine *)

Mutating == {"add", "update", "set_complete", "delete"}

\* C1: starting from an empty collection, after any sequence of create,
\* update, set_completed and delete operations no two records of the collection
\* share an id.
C1_UniqueIds ==
    \A i, k \in 1..Len(todos) : i # k => ~PyEq(todos[i].id, todos[k].id)

\* a create has just added a second record to a collection that a delete had
\* emptied of a lower id
C1_Witness ==
    /\ last.op = "add"
    /\ Len(todos) = 2
    /\ 1 \notin Ids(todos)

C3_NotFoundChangesNothing ==
    [][last'.op \in {"update", "set_complete", "delete"} /\ last'.id \notin Ids(todos)
            => /\ last'.exc = NotFound
               /\ ~last'.saved
               /\ todos' = todos
               /\ file' = file]_vars

\* a delete of an absent id has failed on a collection that holds records
C3_Witness ==
    /\ last.op = "delete"
    /\ last.exc = NotFound
    /\ todos # <<>>
    /\ last.id \notin Ids(todos)

\* C5: after every successful create, update, set_completed and delete the
\* operation has saved, and the backing file holds the in-memory collection:
\* the same records with the same fields.
C5_FileIsCollection ==
    last.op \in Mutating /\ last.exc = "none"
        => /\ last.saved
           /\ file.exists
           /\ load_todos(file) = [todos |-> todos, warned |-> FALSE]

\* a set_completed has returned on a collection of two records
C5_Witness ==
    /\ last.op = "set_complete"
    /\ last.exc = "none"
    /\ Len(todos) = 2
    /\ \E i \in 1..2 : truthy(todos[i].completed)

\* C8: for an existing record set_completed(id, v) leaves completed = v whatever
\* it was, and set_completed(id, true) followed by set_completed(id, false)
\* leaves completed = false and every other field as it was before the calls.
C8_CompleteThenReopen ==
    \A i \in 1..Len(todos) :
        LET id == todos[i].id.v
            done == set_complete(todos, file, id, TRUE)
            back == set_complete(done.todos, done.file, id, FALSE)
        IN  /\ done.exc = "none" /\ back.exc = "none"
            /\ done.todos = [todos EXCEPT ![i].completed = PyBool(TRUE)]
            /\ back.todos = [todos EXCEPT ![i].completed = PyBool(FALSE)]
            /\ last.op = "set_complete" /\ last.exc = "none" /\ last.id = id
                    => todos[i].completed = PyBool(last.completed)

\* a completed record has just been reopened, next to another one
C8_Witness ==
    /\ last.op = "set_complete"
    /\ last.exc = "none"
    /\ ~last.completed
    /\ Len(todos) = 2
    /\ \E i \in 1..2 : todos[i].id.v = last.id /\ todos[i].completed = PyBool(FALSE)
                       /\ todos[i].due_date # PyNone

\* the position of the record with the given id
PosOf(ts, id) == CHOOSE i \in 1..Len(ts) : ts[i].id.v = id

\* C6: update has partial-update semantics: for an existing id, each of title,
\* description and due_date whose argument is absent keeps its value, and an
\* update given no optional field (and clear_due false) leaves every field of
\* every record as it was and still saves.
C6_AbsentKeepsValue ==
    [][last'.op = "update" /\ last'.id \in Ids(todos)
            => LET i == PosOf(todos, last'.id)
                   g == last'.given
               IN  /\ last'.exc = "none"
                   /\ last'.saved
                   /\ Len(todos') = Len(todos)
                   /\ "title" \notin g => todos'[i].title = todos[i].title
                   /\ "desc" \notin g => todos'[i].description = todos[i].description
                   /\ "due" \notin g /\ "clear_due" \notin g
                          => todos'[i].due_date = todos[i].due_date
                   /\ g = {} => todos' = todos /\ file' = save_todos(todos)]_vars

\* an update given no optional field has returned, on a record that has a due
\* date
C6_Witness ==
    /\ last.op = "update"
    /\ last.exc = "none"
    /\ last.given = {}
    /\ last.saved
    /\ \E i \in 1..Len(todos) : todos[i].id.v = last.id /\ truthy(todos[i].due_date)

\* C7: for an existing id, update with clear_due = true leaves the record with
\* no due date whether or not a due value is supplied in the same call; with
\* clear_due = false and a supplied due, due_date becomes the supplied value.
C7_ClearDueWins ==
    [][last'.op = "update" /\ last'.id \in Ids(todos)
            => LET i == PosOf(todos, last'.id)
                   g == last'.given
               IN  /\ "clear_due" \in g => todos'[i].due_date = PyNone
                   /\ "clear_due" \notin g /\ "due" \in g
                          => todos'[i].due_date = last'.due]_vars

\* an update given both clear_due and a due date has returned and the record
\* has no due date
C7_Witness ==
    /\ last.op = "update"
    /\ last.exc = "none"
    /\ {"due", "clear_due"} \subseteq last.given
    /\ last.due = PyStr(D_Jan)
    /\ \E i \in 1..Len(todos) : todos[i].id.v = last.id /\ todos[i].due_date = PyNone

\* the record has a due date that parses
HasValidDue(t) == t.due_date.t = "str" /\ strptime(t.due_date.v).ok

\* the due date as one number, for two records that have one
DueNumber(t) ==
    LET d == strptime(t.due_date.v) IN 10000 * d.y + 100 * d.m + d.d

IdsInOrder(items) == [i \in 1..Len(items) |-> items[i].id.v]

\* C9: with sort_by_due, list puts every record with a valid due date before
\* every record with none or an unparseable one, the dated records ascending by
\* date, and orders records tied on date, and the dateless ones, by ascending
\* id; without sort_by_due the order is ascending id.  Ids 1 (2025-03-01),
\* 2 (none), 3 (2025-01-01) list as 3, 1, 2.
C9_ListOrder ==
    last.op = "list" =>
        LET items == out.items
        IN  /\ last.sort_by_due =>
                \A i, k \in 1..Len(items) : i < k =>
                    /\ HasValidDue(items[k]) => HasValidDue(items[i])
                    /\ HasValidDue(items[i]) /\ HasValidDue(items[k])
                          => \/ DueNumber(items[i]) < DueNumber(items[k])
                             \/ /\ DueNumber(items[i]) = DueNumber(items[k])
                                /\ items[i].id.v < items[k].id.v
                    /\ ~HasValidDue(items[i]) /\ ~HasValidDue(items[k])
                          => items[i].id.v < items[k].id.v
            /\ ~last.sort_by_due =>
                \A i, k \in 1..Len(items) : i < k => items[i].id.v < items[k].id.v
            /\ ( /\ last.sort_by_due /\ ~last.open_only /\ Len(todos) = 3
                 /\ IdsInOrder(todos) = <<1, 2, 3>> )
                    => IdsInOrder(items) = <<3, 1, 2>>

\* the example has been listed by due date
C9_Witness ==
    /\ last.op = "list"
    /\ last.sort_by_due
    /\ ~last.open_only
    /\ IdsInOrder(todos) = <<1, 2, 3>>
    /\ IdsInOrder(out.items) = <<3, 1, 2>>

\* C10: with open_only, list returns exactly the records whose completed flag
\* is false, for both values of sort_by_due; without it, every record of the
\* collection exactly once.
C10_OpenOnly ==
    last.op = "list" =>
        LET items == out.items
            wanted == {i \in 1..Len(todos) :
                          last.open_only => todos[i].completed = PyBool(FALSE)}
        IN  /\ Len(items) = Cardinality(wanted)
            /\ \A i \in wanted : \E k \in 1..Len(items) : items[k] = todos[i]
            /\ \A k \in 1..Len(items) : \E i \in wanted : items[k] = todos[i]

\* an open_only listing has dropped a completed record and kept an open one
C10_Witness ==
    /\ last.op = "list"
    /\ last.open_only
    /\ Len(todos) = 3
    /\ Len(out.items) = 2
    /\ \E i \in 1..3 : todos[i].completed = PyBool(TRUE)

\* C4, as claimed: when the due-date text of a create or update request is
\* invalid, InvalidDate is raised before any mutation on every path: no record
\* is created, no field is changed and nothing is saved.
C4_InvalidDateStopsEveryPath ==
    [][last'.bad_due
            => /\ last'.exc = InvalidDate
               /\ ~last'.saved
               /\ file' = file
               /\ todos' = load_todos(file).todos]_vars

\* C4, amended: on the one-shot command path an invalid due-date text raises
\* InvalidDate before any mutation (no record created, no field changed, no
\* save).  On the interactive path it is reported and dropped: create adds the
\* record with no due date, update applies the title and description it was
\* given and leaves due_date as it was, and both save.
C4_InvalidDateByPath ==
    [][last'.bad_due
            => IF last'.path = "main"
               THEN /\ last'.exc = InvalidDate
                    /\ ~last'.saved
                    /\ file' = file
                    /\ todos' = load_todos(file).todos
               ELSE /\ last'.exc = "none"
                    /\ last'.saved
                    /\ file' = save_todos(todos')
                    /\ last'.op = "add"
                          => /\ todos' = Append(todos, todos'[Len(todos')])
                             /\ todos'[Len(todos')].due_date = PyNone
                    /\ last'.op = "update"
                          => LET i == PosOf(todos, last'.id)
                             IN  /\ todos' = [todos EXCEPT
                                        ![i].title = todos'[i].title,
                                        ![i].description = todos'[i].description]
                                 /\ "title" \in last'.given
                                        => todos'[i].title = PyStr(strip(T_b))
                                 /\ "title" \notin last'.given
                                        => todos'[i].title = todos[i].title]_vars

\* a menu update with an invalid due date and a new title has changed the title
\* of a record that keeps its due date
C4_Witness ==
    /\ last.bad_due
    /\ last.path = "menu"
    /\ last.op = "update"
    /\ "title" \in last.given
    /\ \E i \in 1..Len(todos) :
            /\ todos[i].id.v = last.id
            /\ todos[i].title = PyStr(strip(T_b))
            /\ todos[i].due_date = PyStr(D_Mar)

\* C11: next_id is 1 for an empty collection and otherwise one more than the
\* greatest id of the collection (ids 2 and 5 give 6); create assigns this
\* value, which is greater than every id of the collection.
C11_NextIdIsMaxPlusOne ==
    [][last'.op = "add"
            => LET new == todos'[Len(todos')].id
               IN  /\ Len(todos') = Len(todos) + 1
                   /\ new = PyInt(next_id(todos))
                   /\ todos = <<>> => new.v = 1
                   /\ todos # <<>> => /\ new.v - 1 \in Ids(todos)
                                      /\ \A k \in Ids(todos) : k <= new.v - 1
                   /\ \A k \in Ids(todos) : k < new.v
                   /\ Ids(todos) = {2, 5} => new.v = 6]_vars

\* a create has assigned 6 in a collection that held the ids 5 and 2, in this
\* order
C11_Witness ==
    /\ last.op = "add"
    /\ IdsInOrder(todos) = <<5, 2, 6>>

\* C12: for any collection of records, save followed by load on the untouched
\* file returns an equivalent collection: no warning, the same set of ids, and
\* for each id the same title, description, due_date, completed and created_at.
C12_RoundTrip ==
    [][last.op = "save" /\ last'.op = "load"
            => /\ ~last'.warned
               /\ Ids(todos') = Ids(todos)
               /\ Len(todos') = Len(todos)
               /\ \A i \in 1..Len(todos) : \E k \in 1..Len(todos') :
                    /\ todos'[k].id = todos[i].id
                    /\ todos'[k].title = todos[i].title
                    /\ todos'[k].description = todos[i].description
                    /\ todos'[k].due_date = todos[i].due_date
                    /\ todos'[k].completed = todos[i].completed
                    /\ todos'[k].created_at = todos[i].created_at]_vars

\* a saved collection of two records, one with no due date and an empty title
\* and one with an empty due date, has been loaded back
C12_Witness ==
    /\ last.op = "load"
    /\ ~last.warned
    /\ Len(todos) = 2
    /\ file = save_todos(todos)
    /\ \E i, k \in 1..2 :
            /\ todos[i].due_date = PyNone /\ todos[i].title = PyStr(<<>>)
            /\ todos[k].due_date = PyStr(<<>>) /\ todos[k].completed = PyBool(FALSE)

\* an item of the file is a record of the data model: an object with the fields
\* of Todo, at least those without a default, each of its type
ValidRecordItem(item) ==
    /\ item.j = "object"
    /\ TodoRequired \subseteq DOMAIN item.jv
    /\ DOMAIN item.jv \subseteq TodoFields
    /\ \A k \in DOMAIN item.jv :
            CASE k = "id" -> item.jv[k].j = "number"
              [] k = "due_date" -> item.jv[k].j \in {"null", "string"}
              [] k = "completed" -> item.jv[k].j = "boolean"
              [] OTHER -> item.jv[k].j = "string"

\* the file parses into a collection of valid records
HoldsValidRecords(f) ==
    /\ f.exists
    /\ f.syntax_ok
    /\ f.doc.j = "array"
    /\ \A i \in 1..Len(f.doc.jv) : ValidRecordItem(f.doc.jv[i])

\* C13: load of a missing file gives an empty collection and no warning; load
\* of a file that cannot be parsed into a collection of valid records (corrupt
\* syntax, malformed structure or wrong field types) gives an empty collection
\* and a warning; load leaves the file as it is.
C13_LoadRejectsInvalid ==
    [][last'.op = "load"
            => /\ file' = file
               /\ ~file.exists => todos' = <<>> /\ ~last'.warned
               /\ file.exists /\ ~HoldsValidRecords(file)
                      => todos' = <<>> /\ last'.warned]_vars

\* the text is in the fixed form: four digits, a hyphen, two digits, a hyphen,
\* two digits, and names a day of the calendar
IsFixedForm(s) ==
    /\ Len(s) = 10
    /\ \A i \in {1, 2, 3, 4, 6, 7, 9, 10} : IsDigit(s[i])
    /\ s[5] = "-" /\ s[8] = "-"
    /\ LET y == 1000 * DigitVal(s[1]) + 100 * DigitVal(s[2])
                 + 10 * DigitVal(s[3]) + DigitVal(s[4])
           m == 10 * DigitVal(s[6]) + DigitVal(s[7])
           d == 10 * DigitVal(s[9]) + DigitVal(s[10])
       IN  y >= 1 /\ m \in 1..12 /\ d \in 1..DaysInMonth(y, m)

\* C14: validate_due_date gives "no date" for absent or empty input, returns
\* the text for a non-empty input that exactly matches the fixed format and
\* names a real date, and fails with InvalidDate for every other non-empty
\* input: nothing is accepted partially or fuzzily.
C14_ExactFormatOnly ==
    last.op = "parse_due_date" =>
        LET s == last.due
        IN  /\ s = PyNone \/ s = PyStr(<<>>)
                  => last.exc = "none" /\ out.items = <<PyNone>>
            /\ s.t = "str" /\ s.v # <<>> /\ IsFixedForm(s.v)
                  => last.exc = "none" /\ out.items = <<s>>
            /\ s.t = "str" /\ s.v # <<>> /\ ~IsFixedForm(s.v)
                  => last.exc = InvalidDate /\ out.items = <<>>

\* the records of a list
Records(ts) == {ts[i] : i \in 1..Len(ts)}

\* C15: when another writer has changed the file since this process loaded it,
\* the change is lost once this process saves: the save rewrites the whole file
\* from the list in memory, so the file then holds that list with the one
\* record the operation created, changed or removed, and no record that only
\* the other writer had written.
C15_LostUpdate ==
    [][last'.path = "menu" /\ last'.saved
            => /\ load_todos(file') = [todos |-> todos', warned |-> FALSE]
               /\ last'.op = "add"
                      => /\ Len(todos') = Len(todos) + 1
                         /\ \A i \in 1..Len(todos) : todos'[i] = todos[i]
               /\ last'.op \in {"update", "set_complete"}
                      => /\ Len(todos') = Len(todos)
                         /\ \A i \in 1..Len(todos) :
                                \/ todos'[i] = todos[i]
                                \/ todos[i].id.v = last'.id /\ todos'[i].id = todos[i].id
               /\ last'.op = "delete"
                      => Records(todos') = {x \in Records(todos) : x.id.v # last'.id}
               /\ \A y \in Records(load_todos(file).todos) :
                      y \notin Records(todos)
                      /\ ~(last'.op \in {"update", "set_complete"} /\ y.id.v = last'.id)
                          => y \notin Records(load_todos(file').todos)]_vars

\* the menu has created a record from a list it had loaded before the other
\* process added one: the file holds the menu's record alone
C15_Witness ==
    /\ last.stale
    /\ last.path = "menu"
    /\ last.op = "add"
    /\ last.saved
    /\ Len(load_todos(file).todos) = 1
    /\ \A x \in Records(load_todos(file).todos) : x.title # PyStr(T_e)

\* C16: the id and created_at of a record never change after creation: create
\* gives the new record its id and the time of the call, and update and
\* set_completed leave the id and created_at of every record as they were.
C16_IdAndCreatedAtKept ==
    [][/\ last'.op \in {"update", "set_complete"}
            => /\ Len(todos') = Len(todos)
               /\ \A i \in 1..Len(todos) :
                    /\ todos'[i].id = todos[i].id
                    /\ todos'[i].created_at = todos[i].created_at
       /\ last'.op = "add"
            => /\ todos'[Len(todos')].id = PyInt(last'.id)
               /\ todos'[Len(todos')].created_at \in {PyStr(now_str(now)) : now \in Clock}
               /\ \A i \in 1..Len(todos) :
                    /\ todos'[i].id = todos[i].id
                    /\ todos'[i].created_at = todos[i].created_at]_vars

\* a record created at the later time has been completed and then given a new
\* title and due date, and still has the id and the time of its creation
C16_Witness ==
    /\ last.op = "update"
    /\ last.exc = "none"
    /\ last.given = {"title", "due"}
    /\ \E i \in 1..Len(todos) :
            /\ todos[i].id = PyInt(last.id)
            /\ todos[i].title = PyStr(T_b)
            /\ todos[i].completed = PyBool(TRUE)
            /\ todos[i].created_at = PyStr(now_str(Now2))
            /\ last.id = 1

\* C17: no operation affects more than one record: a successful update or
\* set_completed on id i leaves every record with another id as it was; a
\* successful delete of id i removes exactly that record and leaves the others
\* with their fields and in their order; a create adds exactly one record, at
\* the end, and leaves the others as they were.
C17_OneRecordPerCall ==
    [][/\ last'.op \in {"update", "set_complete"} /\ last'.exc = "none"
            => /\ Len(todos') = Len(todos)
               /\ \A i \in 1..Len(todos) :
                    todos[i].id.v # last'.id => todos'[i] = todos[i]
       /\ last'.op = "delete" /\ last'.exc = "none"
            => /\ Len(todos') = Len(todos) - 1
               /\ \E p \in 1..Len(todos) :
                    /\ todos[p].id.v = last'.id
                    /\ \A i \in 1..(p - 1) : todos'[i] = todos[i]
                    /\ \A i \in (p + 1)..Len(todos) : todos'[i - 1] = todos[i]
       /\ last'.op = "add"
            => /\ Len(todos') = Len(todos) + 1
               /\ \A i \in 1..Len(todos) : todos'[i] = todos[i]
               /\ todos'[Len(todos')].id.v \notin Ids(todos)]_vars

\* the record with id 1 has been deleted from between the records 3 and 2,
\* which had been changed before
C17_Witness ==
    /\ last.op = "delete"
    /\ last.exc = "none"
    /\ last.id = 1
    /\ IdsInOrder(todos) = <<3, 2>>
    /\ todos[1].title = PyStr(T_b)
    /\ todos[2].completed = PyBool(FALSE)

\* C18: after any sequence of create and update requests on the one-shot
\* command path or the interactive path, starting from an empty store, the
\* due_date of every record, in memory and in the file, is absent or a text in
\* the fixed form (four digits, two digits, two digits, hyphens between) that
\* parses into a calendar date.
C18_StoredDueFixedForm ==
    \A x \in Records(todos) \cup Records(load_todos(file).todos) :
        \/ x.due_date = PyNone
        \/ /\ x.due_date.t = "str"
           /\ IsFixedForm(x.due_date.v)
           /\ strptime(x.due_date.v).ok

\* C19: in one process with no other writer, deletion is the only way a record
\* disappears: whatever is done on either path (create, update, set_completed,
\* list, load), a record of the store is still in the collection and in the
\* file afterwards, completed or not, unless the step was a successful delete
\* of its id.
C19_OnlyDeleteRemoves ==
    [][\A x \in Records(todos) \cup Records(load_todos(file).todos) :
            \/ last'.op = "delete" /\ last'.exc = "none" /\ last'.id = x.id.v
            \/ /\ x.id.v \in Ids(todos')
               /\ x.id.v \in Ids(load_todos(file').todos)]_vars

\* a completed record has been left out of a listing of the open records and
\* is still in the collection and in the file
C19_Witness ==
    /\ last.op = "list"
    /\ last.open_only
    /\ out.items = <<>>
    /\ Len(todos) = 1
    /\ todos[1].completed = PyBool(TRUE)
    /\ load_todos(file).todos = todos

\* C20: list is read-only: for every combination of sort_by_due and open_only
\* it leaves the stored collection as it was (the same records with the same
\* fields in the same stored order) and saves nothing; it works on a copy.
C20_ListReadOnly ==
    [][last'.op = "list"
            => /\ todos' = todos
               /\ file' = file
               /\ ~last'.saved]_vars

\* a collection stored in the order 2, 3, 1 has been listed by due date as
\* 3, 1, 2 and is still in its stored order, as is the file
C20_Witness ==
    /\ last.op = "list"
    /\ last.sort_by_due
    /\ IdsInOrder(todos) = <<2, 3, 1>>
    /\ IdsInOrder(out.items) = <<3, 1, 2>>
    /\ file = save_todos(todos)

====
